---- MODULE Spec2Model ----
(***************************************************************************)
(* A model of pubannotation.py: the Annotation variants (Denotation,       *)
(* Relation, Modification), the Annotations document object with its ID    *)
(* resolution, and the two codecs (PubAnnotation JSON, Open Annotation     *)
(* JSON-LD).                                                               *)
(*                                                                         *)
(* Representation of Python values:                                        *)
(*   - None is the record None; a metadata string is [str |-> tokens],     *)
(*     its text a sequence of tokens so that %-formatting and regular      *)
(*     expressions act on it; a metadata integer is [int |-> n]; a list   *)
(*     held by a JSON dict is [list |-> items].                            *)
(*   - ids, predicates and labels of annotations are plain strings.        *)
(*   - a reference field of a Relation/Modification holds either the ID    *)
(*     string, [str |-> id], or the annotation object itself, [ref |-> a], *)
(*     where a = <<collection, index>> is the object's place in the        *)
(*     document that owns it.                                              *)
(*   - a dict is a function on its keys; a missing key is a key outside    *)
(*     its DOMAIN.                                                         *)
(*   - a call that raises yields [raised |-> exception]; one that returns  *)
(*     yields [val |-> value].                                             *)
(***************************************************************************)
EXTENDS Integers, Sequences, FiniteSets, TLC

VARIABLES
    doc,      \* the parsed native JSON value handed to Annotations.from_json
    anns,     \* the Annotations object built from doc
    ret,      \* outcome of the last call made on anns
    pc,       \* position of test_roundtrips / of the from_jsonld caller
    out,      \* native JSON re-emitted by the first round trip
    ld,       \* the JSON-LD value in flight
    anns2,    \* the Annotations object built by from_jsonld
    out2,     \* native JSON re-emitted after the JSON-LD round trip
    thr       \* the callers of resolve_ids(): position and locals of each

vars == <<doc, anns, ret, pc, out, ld, anns2, out2, thr>>

---------------------------------------------------------------------------
(* Bounds of the model *)

\* annotations in a native JSON document, the three collections together
MaxAnn == 3
\* entries in the @graph of a JSON-LD document handed to from_jsonld
MaxGraph == 2

BSeq(S, n) == UNION {[1..k -> S] : k \in 0..n}

---------------------------------------------------------------------------
(* Python values *)

None == [null |-> TRUE]
S(tokens) == [str |-> tokens]
I(n) == [int |-> n]
L(items) == [list |-> items]
IsStr(v) == "str" \in DOMAIN v
IsInt(v) == "int" \in DOMAIN v

Raise(e) == [raised |-> e]
Return(v) == [val |-> v]
Raised(r) == "raised" \in DOMAIN r

DuplicateId == "AssertionError: duplicate id"
MultipleResolve == "AssertionError: multiple resolve?"
MissingId == "AssertionError: missing ID"
ResolveFirst == "AssertionError: resolve_ids() first"
AttributeError == "AttributeError"
FailedToParse == "AssertionError: failed to parse"
ValueError == "ValueError"
KeyError == "KeyError"
NoError == "none"

\* F(x) with x bound to the value of v, which is computed once
Let(v, F(_)) == CHOOSE y \in {F(x) : x \in {v}} : TRUE

\* dict.get(k, default)
Get(d, k, default) == IF k \in DOMAIN d THEN d[k] ELSE default

Digit == <<"0", "1", "2", "3", "4", "5", "6", "7", "8", "9">>
Digits == {Digit[i] : i \in 1..10}

RECURSIVE DecimalOf(_)
DecimalOf(n) ==
    IF n < 10 THEN <<Digit[n + 1]>>
    ELSE DecimalOf(n \div 10) \o <<Digit[(n % 10) + 1]>>

\* '%d' % n
FormatD(n) == IF n < 0 THEN <<"-">> \o DecimalOf(0 - n) ELSE DecimalOf(n)

\* '%s' % v
FormatS(v) ==
    IF v = None THEN <<"None">>
    ELSE IF IsInt(v) THEN FormatD(v.int)
    ELSE v.str

DigitValue(c) == (CHOOSE i \in 1..10 : Digit[i] = c) - 1

RECURSIVE DecimalValue(_)
DecimalValue(s) ==
    IF Len(s) = 0 THEN 0
    ELSE 10 * DecimalValue(SubSeq(s, 1, Len(s) - 1)) + DigitValue(s[Len(s)])

AllDigits(s) == Len(s) > 0 /\ \A i \in 1..Len(s) : s[i] \in Digits

\* int(s) for a str s
int(s) ==
    IF AllDigits(s) THEN Return(DecimalValue(s))
    ELSE IF Len(s) > 1 /\ s[1] = "-" /\ AllDigits(Tail(s))
         THEN Return(0 - DecimalValue(Tail(s)))
         ELSE Raise(ValueError)

StartsWith(s, from, lit) ==
    /\ from + Len(lit) - 1 <= Len(s)
    /\ SubSeq(s, from, from + Len(lit) - 1) = lit

---------------------------------------------------------------------------
(* Annotation: the part shared by the three variants *)

\* An annotation object's place in the document that owns it.
Deref(a, addr) == a[addr[1]][addr[2]]
IsDenotation(addr) == addr[1] = "denotations"
IsRef(v) == "ref" \in DOMAIN v

\* Annotation.target.wrap
wrap(span) == S(<<"span:">> \o FormatD(span[1]) \o <<",">> \o FormatD(span[2]))

\* Annotation.target, given the outcome of self.spans()
target(spans) ==
    IF Raised(spans) THEN spans
    ELSE IF Len(spans.val) = 1 THEN Return(wrap(spans.val[1]))
    ELSE Return([i \in 1..Len(spans.val) |-> wrap(spans.val[i])])

---------------------------------------------------------------------------
(* Denotation *)

Denotation_spans(d) == Return(<<<<d.begin, d.end>>>>)

Denotation_to_json(d) ==
    [id |-> d.id, span |-> [begin |-> d.begin, end |-> d.end], obj |-> d.obj]

Denotation_to_jsonld(d) ==
    LET t == target(Denotation_spans(d)) IN
    IF Raised(t) THEN t
    ELSE Return(("@id" :> d.id) @@ ("@type" :> "pa:Denotation")
                @@ ("hasTarget" :> t.val) @@ ("label" :> d.obj))

Denotation_from_json(j) ==
    [id |-> j.id, begin |-> j.span.begin, end |-> j.span.end, obj |-> j.obj]

\* index of the last token of the run of digits that starts at from
\* (from - 1 when there is none)
RECURSIVE DigitRunEnd(_, _)
DigitRunEnd(s, from) ==
    IF from <= Len(s) /\ s[from] \in Digits THEN DigitRunEnd(s, from + 1)
    ELSE from - 1

\* re.match(r'span:(\d+),(\d+)', s): the two groups, or None
re_match_span(s) ==
    IF ~(Len(s) >= 1 /\ s[1] = "span:") THEN None
    ELSE LET e1 == DigitRunEnd(s, 2) IN
         IF ~(e1 >= 2 /\ e1 + 1 <= Len(s) /\ s[e1 + 1] = ",") THEN None
         ELSE LET e2 == DigitRunEnd(s, e1 + 2) IN
              IF e2 < e1 + 2 THEN None
              ELSE [groups |-> <<SubSeq(s, 2, e1), SubSeq(s, e1 + 2, e2)>>]

Denotation_from_jsonld(e) ==
    LET m == re_match_span(e["hasTarget"].str) IN
    IF m = None THEN Raise(AttributeError)
    ELSE LET b == int(m.groups[1])
             n == int(m.groups[2])
         IN IF Raised(b) THEN b
            ELSE IF Raised(n) THEN n
            ELSE Return([id |-> e["@id"], begin |-> b.val, end |-> n.val,
                         obj |-> e["label"]])

---------------------------------------------------------------------------
(* Relation *)

\* the four assertions of Relation.resolve_ids: what they raise
Relation_resolve_asserts(r, ann_by_id) ==
    IF ~IsStr(r.subj) THEN MultipleResolve
    ELSE IF ~IsStr(r.obj) THEN MultipleResolve
    ELSE IF r.subj.str \notin DOMAIN ann_by_id THEN MissingId
    ELSE IF r.obj.str \notin DOMAIN ann_by_id THEN MissingId
    ELSE NoError

Relation_resolve_ids(r, ann_by_id) ==
    IF Relation_resolve_asserts(r, ann_by_id) # NoError
    THEN Raise(Relation_resolve_asserts(r, ann_by_id))
    ELSE Return([r EXCEPT !.subj = [ref |-> ann_by_id[r.subj.str]],
                          !.obj = [ref |-> ann_by_id[r.obj.str]]])

\* a is the document that owns r: self.subj.begin reads the referenced object
Relation_spans(a, r) ==
    IF ~IsRef(r.subj) THEN Raise(ResolveFirst)
    ELSE IF ~IsRef(r.obj) THEN Raise(ResolveFirst)
    ELSE IF ~IsDenotation(r.subj.ref) THEN Raise(AttributeError)
    ELSE IF ~IsDenotation(r.obj.ref) THEN Raise(AttributeError)
    ELSE Return(<<<<Deref(a, r.subj.ref).begin, Deref(a, r.subj.ref).end>>,
                  <<Deref(a, r.obj.ref).begin, Deref(a, r.obj.ref).end>>>>)

\* subj_id() that reads the object's id once the fields hold objects
Relation_subj_id_of_obj(a, r) ==
    IF IsStr(r.subj) THEN r.subj.str ELSE Deref(a, r.obj.ref).id

Relation_subj_id(a, r) ==
    IF IsStr(r.subj) THEN r.subj.str ELSE Deref(a, r.subj.ref).id

Relation_obj_id(a, r) ==
    IF IsStr(r.obj) THEN r.obj.str ELSE Deref(a, r.obj.ref).id

Relation_to_json(a, r) ==
    [id |-> r.id, subj |-> Relation_subj_id(a, r), pred |-> r.pred,
     obj |-> Relation_obj_id(a, r)]

Relation_to_jsonld(a, r) ==
    LET t == target(Relation_spans(a, r)) IN
    IF Raised(t) THEN t
    ELSE Return(("@id" :> r.id) @@ ("@type" :> "pa:Relation")
                @@ ("hasTarget" :> t.val)
                @@ ("hasBody" :> (("pa:Subject" :> Relation_subj_id(a, r))
                                  @@ ("pa:Predicate" :> r.pred)
                                  @@ ("pa:Object" :> Relation_obj_id(a, r)))))

Relation_from_json(j) ==
    [id |-> j.id, subj |-> [str |-> j.subj], pred |-> j.pred,
     obj |-> [str |-> j.obj]]

Relation_from_jsonld(e) ==
    IF "hasBody" \notin DOMAIN e THEN Raise(AttributeError)
    ELSE LET body == e["hasBody"] IN
         IF {"pa:Subject", "pa:Predicate", "pa:Object"} \subseteq DOMAIN body
         THEN Return([id |-> e["@id"], subj |-> [str |-> body["pa:Subject"]],
                      pred |-> body["pa:Predicate"],
                      obj |-> [str |-> body["pa:Object"]]])
         ELSE Raise(KeyError)

---------------------------------------------------------------------------
(* Modification *)

\* the two assertions of Modification.resolve_ids: what they raise
Modification_resolve_asserts(m, ann_by_id) ==
    IF ~IsStr(m.obj) THEN MultipleResolve
    ELSE IF m.obj.str \notin DOMAIN ann_by_id THEN MissingId
    ELSE NoError

Modification_resolve_ids(m, ann_by_id) ==
    IF Modification_resolve_asserts(m, ann_by_id) # NoError
    THEN Raise(Modification_resolve_asserts(m, ann_by_id))
    ELSE Return([m EXCEPT !.obj = [ref |-> ann_by_id[m.obj.str]]])

Modification_spans(a, m) ==
    IF ~IsRef(m.obj) THEN Raise(ResolveFirst)
    ELSE IF ~IsDenotation(m.obj.ref) THEN Raise(AttributeError)
    ELSE Return(<<<<Deref(a, m.obj.ref).begin, Deref(a, m.obj.ref).end>>>>)

Modification_obj_id(a, m) ==
    IF IsStr(m.obj) THEN m.obj.str ELSE Deref(a, m.obj.ref).id

Modification_to_json(a, m) ==
    [id |-> m.id, pred |-> m.pred, obj |-> Modification_obj_id(a, m)]

Modification_to_jsonld(a, m) ==
    LET t == target(Modification_spans(a, m)) IN
    IF Raised(t) THEN t
    ELSE Return(("@id" :> m.id) @@ ("@type" :> "pa:Modification")
                @@ ("hasTarget" :> t.val)
                @@ ("hasBody" :> (("pa:Predicate" :> m.pred)
                                  @@ ("pa:Object" :> Modification_obj_id(a, m)))))

Modification_from_json(j) ==
    [id |-> j.id, pred |-> j.pred, obj |-> [str |-> j.obj]]

Modification_from_jsonld(e) ==
    IF "hasBody" \notin DOMAIN e THEN Raise(AttributeError)
    ELSE LET body == e["hasBody"] IN
         IF {"pa:Predicate", "pa:Object"} \subseteq DOMAIN body
         THEN Return([id |-> e["@id"], pred |-> body["pa:Predicate"],
                      obj |-> [str |-> body["pa:Object"]]])
         ELSE Raise(KeyError)

---------------------------------------------------------------------------
(* Annotations: the document object *)

\* Annotations.annotations: the objects of the three collections, chained
annotations(a) ==
    [i \in 1..Len(a.denotations) |-> <<"denotations", i>>]
    \o [i \in 1..Len(a.relations) |-> <<"relations", i>>]
    \o [i \in 1..Len(a.modifications) |-> <<"modifications", i>>]

\* the loop of get_ann_by_id from the k-th annotation on
RECURSIVE get_ann_by_id_from(_, _, _)
get_ann_by_id_from(a, k, ann_by_id) ==
    LET chain == annotations(a) IN
    IF k > Len(chain) THEN Return(ann_by_id)
    ELSE IF Deref(a, chain[k]).id \in DOMAIN ann_by_id THEN Raise(DuplicateId)
    ELSE Let(ann_by_id @@ (Deref(a, chain[k]).id :> chain[k]),
             LAMBDA next : get_ann_by_id_from(a, k + 1, next))

\* the ID map built without the duplicate check: a later annotation takes
\* the place of an earlier one with the same id
get_ann_by_id_overwriting(a) ==
    LET chain == annotations(a)
        ids == {Deref(a, chain[k]).id : k \in 1..Len(chain)}
        last(id) == CHOOSE k \in 1..Len(chain) :
                        /\ Deref(a, chain[k]).id = id
                        /\ \A j \in 1..Len(chain) :
                               Deref(a, chain[j]).id = id => j <= k
    IN Return([id \in ids |-> chain[last(id)]])

get_ann_by_id(a) == get_ann_by_id_from(a, 1, <<>>)

\* a.resolve_ids(ann_by_id) for the annotation at addr, by its class
Annotation_resolve_ids(a, addr, ann_by_id) ==
    IF addr[1] = "denotations" THEN Return(Deref(a, addr))
    ELSE IF addr[1] = "relations"
         THEN Relation_resolve_ids(Deref(a, addr), ann_by_id)
         ELSE Modification_resolve_ids(Deref(a, addr), ann_by_id)

\* the document with the object at addr changed in place
Mutate(a, addr, obj) == [a EXCEPT ![addr[1]][addr[2]] = obj]

\* the loop of Annotations.resolve_ids from the k-th annotation on: the
\* objects are changed in place, so those handled before a failure stay so
RECURSIVE resolve_ids_from(_, _, _)
resolve_ids_from(a, k, ann_by_id) ==
    LET chain == annotations(a) IN
    IF k > Len(chain)
    THEN [anns |-> [a EXCEPT !._ids_resolved = TRUE], raised |-> NoError]
    ELSE Let(Annotation_resolve_ids(a, chain[k], ann_by_id), LAMBDA r :
             IF Raised(r) THEN [anns |-> a, raised |-> r.raised]
             ELSE Let(Mutate(a, chain[k], r.val),
                      LAMBDA next : resolve_ids_from(next, k + 1, ann_by_id)))

\* resolve_ids() without the check of the resolved flag
resolve_ids_unguarded(a) ==
    Let(get_ann_by_id(a), LAMBDA m :
        IF Raised(m)
        THEN [anns |-> a, raised |-> m.raised, scanned |-> TRUE]
        ELSE [scanned |-> TRUE] @@ resolve_ids_from(a, 1, m.val))

\* resolve_ids() that sets the resolved flag whether or not the loop failed
resolve_ids_flagging(a) ==
    IF a._ids_resolved
    THEN [anns |-> a, raised |-> NoError, scanned |-> FALSE]
    ELSE Let(get_ann_by_id(a), LAMBDA m :
             IF Raised(m)
             THEN [anns |-> a, raised |-> m.raised, scanned |-> TRUE]
             ELSE Let(resolve_ids_from(a, 1, m.val), LAMBDA r :
                      [anns |-> [r.anns EXCEPT !._ids_resolved = TRUE],
                       raised |-> r.raised, scanned |-> TRUE]))

\* Annotations.resolve_ids(): the document after the call, what it raised,
\* and whether it built the ID map
resolve_ids(a) ==
    IF a._ids_resolved
    THEN [anns |-> a, raised |-> NoError, scanned |-> FALSE]
    ELSE Let(get_ann_by_id(a), LAMBDA m :
             IF Raised(m)
             THEN [anns |-> a, raised |-> m.raised, scanned |-> TRUE]
             ELSE [scanned |-> TRUE] @@ resolve_ids_from(a, 1, m.val))

BaseRoot == <<"http:", "/", "/", "pubannotation.org", "/", "projects", "/">>
TargetRoot ==
    <<"http:", "/", "/", "pubannotation.org", "/", "docs", "/", "sourcedb", "/">>

\* Annotations.base_url
base_url(a) ==
    S(BaseRoot \o FormatS(a.project) \o <<"/", "docs", "/", "sourcedb", "/">>
      \o FormatS(a.sourcedb) \o <<"/", "sourceid", "/">>
      \o FormatS(a.sourceid) \o <<"/">>
      \o (IF a.divid # None
          THEN <<"divs", "/">> \o FormatS(a.divid) \o <<"/">> ELSE <<>>))

ScalarKeys == {"target", "text", "sourcedb", "sourceid", "divid", "project"}

\* doc[k] is None or doc[k] == []
IsNoneOrEmpty(v) == v = None \/ v = L(<<>>)

\* the dict d without the keys to_json deletes
DropEmpty(d) ==
    LET keep == {k \in DOMAIN d : ~IsNoneOrEmpty(d[k])} IN [k \in keep |-> d[k]]

\* Annotations.to_json
to_json(a) ==
    DropEmpty(
        [target |-> a.target, text |-> a.text, sourcedb |-> a.sourcedb,
         sourceid |-> a.sourceid, divid |-> a.divid, project |-> a.project,
         namespaces |-> a.namespaces,
         denotations |-> L([i \in 1..Len(a.denotations) |->
                                Denotation_to_json(a.denotations[i])]),
         relations |-> L([i \in 1..Len(a.relations) |->
                              Relation_to_json(a, a.relations[i])]),
         modifications |-> L([i \in 1..Len(a.modifications) |->
                                  Modification_to_json(a, a.modifications[i])])])

Min(ps) == CHOOSE p \in ps : \A q \in ps : p <= q

\* the first exception a list comprehension with the outcomes rs raises, if any
FirstRaised(rs) ==
    LET bad == {k \in 1..Len(rs) : Raised(rs[k])} IN
    IF bad = {} THEN None ELSE rs[Min(bad)]

\* the list it builds when none is raised
Values(rs) == [k \in 1..Len(rs) |-> rs[k].val]

\* a.to_jsonld() for the annotation at addr, by its class
Annotation_to_jsonld(a, addr) ==
    IF addr[1] = "denotations" THEN Denotation_to_jsonld(Deref(a, addr))
    ELSE IF addr[1] = "relations" THEN Relation_to_jsonld(a, Deref(a, addr))
    ELSE Modification_to_jsonld(a, Deref(a, addr))

\* a.spans() for the annotation at addr, by its class
Annotation_spans(a, addr) ==
    IF addr[1] = "denotations" THEN Denotation_spans(Deref(a, addr))
    ELSE IF addr[1] = "relations" THEN Relation_spans(a, Deref(a, addr))
    ELSE Modification_spans(a, Deref(a, addr))

\* Annotations.to_jsonld: the document after the call (resolution is a side
\* effect), whether the call built the ID map, and the value returned or the
\* exception raised
to_jsonld(a) ==
    Let(resolve_ids(a), LAMBDA res :
        IF res.raised # NoError
        THEN [anns |-> res.anns, scanned |-> res.scanned,
              result |-> Raise(res.raised)]
        ELSE Let([k \in 1..Len(annotations(res.anns)) |->
                     Annotation_to_jsonld(res.anns, annotations(res.anns)[k])],
                 LAMBDA graph :
                     [anns |-> res.anns, scanned |-> res.scanned,
                      result |->
                          IF FirstRaised(graph) # None THEN FirstRaised(graph)
                          ELSE Return(
                              ("@context" :> (("@base" :> base_url(res.anns))
                                              @@ ("text" :> res.anns.text)))
                              @@ ("@graph" :> Values(graph)))]))

\* from_json that, like from_jsonld, leaves the namespaces empty
from_json_without_namespaces(d) ==
    LET denotations == Get(d, "denotations", L(<<>>)).list
        relations == Get(d, "relations", L(<<>>)).list
        modifications == Get(d, "modifications", L(<<>>)).list
    IN [target |-> Get(d, "target", None),
        text |-> Get(d, "text", None),
        project |-> Get(d, "project", None),
        sourcedb |-> Get(d, "sourcedb", None),
        sourceid |-> Get(d, "sourceid", None),
        divid |-> Get(d, "divid", None),
        denotations |-> [i \in 1..Len(denotations) |->
                             Denotation_from_json(denotations[i])],
        relations |-> [i \in 1..Len(relations) |->
                           Relation_from_json(relations[i])],
        modifications |-> [i \in 1..Len(modifications) |->
                               Modification_from_json(modifications[i])],
        namespaces |-> L(<<>>),
        _ids_resolved |-> FALSE]

\* Annotations.from_json
from_json(d) ==
    LET denotations == Get(d, "denotations", L(<<>>)).list
        relations == Get(d, "relations", L(<<>>)).list
        modifications == Get(d, "modifications", L(<<>>)).list
    IN [target |-> Get(d, "target", None),
        text |-> Get(d, "text", None),
        project |-> Get(d, "project", None),
        sourcedb |-> Get(d, "sourcedb", None),
        sourceid |-> Get(d, "sourceid", None),
        divid |-> Get(d, "divid", None),
        denotations |-> [i \in 1..Len(denotations) |->
                             Denotation_from_json(denotations[i])],
        relations |-> [i \in 1..Len(relations) |->
                           Relation_from_json(relations[i])],
        modifications |-> [i \in 1..Len(modifications) |->
                               Modification_from_json(modifications[i])],
        namespaces |-> Get(d, "namespaces", L(<<>>)),
        _ids_resolved |-> FALSE]

---------------------------------------------------------------------------
(* Annotations.parse_base: the regular expression                          *)
(*   ^http://pubannotation.org/projects/(.*?)/docs/sourcedb/(.*?)          *)
(*    /sourceid/(.*?)/(?:divs/(.*?)/)?$                                    *)
(* matched as re.match does: each lazy group takes the shortest text for   *)
(* which the rest of the pattern still matches, and the optional group is  *)
(* taken when it can be.                                                   *)

\* "/(?:divs/(.*?)/)?$" at position p: whether it matches
EndMatches(s, p) ==
    /\ p <= Len(s) /\ s[p] = "/"
    /\ \/ /\ StartsWith(s, p + 1, <<"divs", "/">>)
          /\ \E e \in (p + 3)..Len(s) : s[e] = "/" /\ e = Len(s)
       \/ p = Len(s)

\* the divid group of that match: the text between "divs/" and the final "/",
\* None when the optional group did not take part
DividGroup(s, p) ==
    IF /\ StartsWith(s, p + 1, <<"divs", "/">>)
       /\ \E e \in (p + 3)..Len(s) : s[e] = "/" /\ e = Len(s)
    THEN S(SubSeq(s, p + 3, Len(s) - 1))
    ELSE None

\* "(.*?)/(?:divs/(.*?)/)?$" from position st
MatchSourceid(s, st) ==
    LET ps == {p \in st..Len(s) : EndMatches(s, p)} IN
    IF ps = {} THEN None
    ELSE [sourceid |-> S(SubSeq(s, st, Min(ps) - 1)),
          divid |-> DividGroup(s, Min(ps))]

SourceidLit == <<"/", "sourceid", "/">>
SourcedbLit == <<"/", "docs", "/", "sourcedb", "/">>

\* "(.*?)/sourceid/..." from position st
MatchSourcedb(s, st) ==
    LET ps == {p \in st..Len(s) :
                   /\ StartsWith(s, p, SourceidLit)
                   /\ MatchSourceid(s, p + Len(SourceidLit)) # None}
    IN IF ps = {} THEN None
       ELSE [sourcedb |-> S(SubSeq(s, st, Min(ps) - 1))]
            @@ MatchSourceid(s, Min(ps) + Len(SourceidLit))

\* "(.*?)/docs/sourcedb/..." from position st
MatchProject(s, st) ==
    LET ps == {p \in st..Len(s) :
                   /\ StartsWith(s, p, SourcedbLit)
                   /\ MatchSourcedb(s, p + Len(SourcedbLit)) # None}
    IN IF ps = {} THEN None
       ELSE [project |-> S(SubSeq(s, st, Min(ps) - 1))]
            @@ MatchSourcedb(s, Min(ps) + Len(SourcedbLit))

\* Annotations.parse_base: the groups project, sourcedb, sourceid, divid
parse_base(base) ==
    LET m == IF StartsWith(base.str, 1, BaseRoot)
             THEN MatchProject(base.str, Len(BaseRoot) + 1)
             ELSE None
    IN IF m = None THEN Raise(FailedToParse) ELSE Return(m)

\* [e for e in graph if e['@type'] == ty]
OfType(graph, ty) == LET Is(e) == e["@type"] = ty IN SelectSeq(graph, Is)

\* the lines of from_jsonld after parse_base has returned the groups m
from_jsonld_parsed(d, m) ==
    LET context == d["@context"]
        graph == d["@graph"]
        divid == IF m.divid = None THEN Return(None)
                 ELSE Let(int(m.divid.str), LAMBDA n :
                          IF Raised(n) THEN n ELSE Return(I(n.val)))
        tgt == S(TargetRoot \o FormatS(m.sourcedb) \o <<"/", "sourceid", "/">>
                 \o FormatS(m.sourceid) \o <<"/">>
                 \o (IF m.divid # None
                     THEN <<"divs", "/">> \o FormatS(m.divid) ELSE <<>>))
        denotations == OfType(graph, "pa:Denotation")
        relations == OfType(graph, "pa:Relation")
        modifications == OfType(graph, "pa:Modification")
    IN
    IF Raised(divid) THEN divid
    ELSE
    Let([i \in 1..Len(denotations) |-> Denotation_from_jsonld(denotations[i])],
        LAMBDA ds :
    Let([i \in 1..Len(relations) |-> Relation_from_jsonld(relations[i])],
        LAMBDA rs :
    Let([i \in 1..Len(modifications) |-> Modification_from_jsonld(modifications[i])],
        LAMBDA ms :
        IF FirstRaised(ds) # None THEN FirstRaised(ds)
        ELSE IF FirstRaised(rs) # None THEN FirstRaised(rs)
        ELSE IF FirstRaised(ms) # None THEN FirstRaised(ms)
        ELSE Return([target |-> tgt,
                     text |-> context["text"],
                     project |-> m.project,
                     sourcedb |-> m.sourcedb,
                     sourceid |-> m.sourceid,
                     divid |-> divid.val,
                     denotations |-> Values(ds),
                     relations |-> Values(rs),
                     modifications |-> Values(ms),
                     namespaces |-> L(<<>>),
                     _ids_resolved |-> FALSE]))))

\* Annotations.from_jsonld
from_jsonld(d) ==
    Let(parse_base(d["@context"]["@base"]), LAMBDA m :
        IF Raised(m) THEN m ELSE from_jsonld_parsed(d, m.val))

---------------------------------------------------------------------------
(* The native JSON documents the model draws its inputs from *)

DenotationDocs ==
    {[id |-> "T1", span |-> [begin |-> 0, end |-> 1], obj |-> "X"],
     [id |-> "T2", span |-> [begin |-> 2, end |-> 13], obj |-> "Y"]}

RelationDocs ==
    {[id |-> i, subj |-> s, pred |-> "P", obj |-> "T2"] :
        i \in {"R1", "R2"}, s \in {"T1", "R1"}}

ModificationDocs ==
    {[id |-> i, pred |-> "Neg", obj |-> o] :
        i \in {"M1", "R1"}, o \in {"T1", "R1"}}

\* the target URL that follows the target grammar for these source fields
TargetOf(sourcedb, sourceid, divid) ==
    S(TargetRoot \o FormatS(sourcedb) \o <<"/", "sourceid", "/">>
      \o FormatS(sourceid) \o <<"/">>
      \o (IF divid # None THEN <<"divs", "/">> \o FormatS(divid) ELSE <<>>))

\* a dict restricted to the keys in ks
Restrict(d, ks) == [k \in ks \cap DOMAIN d |-> d[k]]

Annotated(ds, rs, ms) ==
    [denotations |-> L(ds), relations |-> L(rs), modifications |-> L(ms)]

FullMeta ==
    [target |-> TargetOf(S(<<"PMC">>), S(<<"123">>), I(0)),
     text |-> S(<<"AB">>), sourcedb |-> S(<<"PMC">>), sourceid |-> S(<<"123">>),
     divid |-> I(0), project |-> S(<<"proj">>)]

\* the three collections of a document, MaxAnn annotations at most
Collections ==
    UNION {UNION {{Annotated(ds, rs, ms) :
                      ms \in BSeq(ModificationDocs, MaxAnn - Len(ds) - Len(rs))} :
                  rs \in BSeq(RelationDocs, MaxAnn - Len(ds))} :
           ds \in BSeq(DenotationDocs, MaxAnn)}

\* documents with every metadata field set and no namespaces; an empty
\* collection has no key
Docs == {DropEmpty(FullMeta @@ c) : c \in Collections}

\* what the data model asks of a document, read off the JSON value
IdsOf(d) ==
    LET all == Get(d, "denotations", L(<<>>)).list
               \o Get(d, "relations", L(<<>>)).list
               \o Get(d, "modifications", L(<<>>)).list
    IN [i \in 1..Len(all) |-> all[i].id]

DistinctIds(d) == \A i, j \in 1..Len(IdsOf(d)) : IdsOf(d)[i] = IdsOf(d)[j] => i = j

IdSet(d) == {IdsOf(d)[i] : i \in 1..Len(IdsOf(d))}

Dangling(d) ==
    \/ \E i \in 1..Len(Get(d, "relations", L(<<>>)).list) :
           \/ d.relations.list[i].subj \notin IdSet(d)
           \/ d.relations.list[i].obj \notin IdSet(d)
    \/ \E i \in 1..Len(Get(d, "modifications", L(<<>>)).list) :
           d.modifications.list[i].obj \notin IdSet(d)

Resolvable(d) == DistinctIds(d) /\ ~Dangling(d)

---------------------------------------------------------------------------
(* Spec: one Annotations object and the calls made on it, one at a time *)

Outcome(op, arg, raised, scanned, val) ==
    [op |-> op, arg |-> arg, raised |-> raised, scanned |-> scanned, val |-> val]

Init ==
    /\ doc \in Docs
    /\ anns = from_json(doc)
    /\ ret = Outcome("from_json", <<>>, NoError, FALSE, None)
    /\ pc = "object"
    /\ out = None /\ ld = None /\ anns2 = None /\ out2 = None
    /\ thr = <<>>

ResolveIds ==
    \E r \in {resolve_ids(anns)} :
    /\ anns' = r.anns
    /\ ret' = Outcome("resolve_ids", <<>>, r.raised, r.scanned, None)
    /\ UNCHANGED <<doc, pc, out, ld, anns2, out2, thr>>

GetAnnById ==
    \E r \in {get_ann_by_id(anns)} :
    /\ ret' = IF Raised(r)
              THEN Outcome("get_ann_by_id", <<>>, r.raised, TRUE, None)
              ELSE Outcome("get_ann_by_id", <<>>, NoError, TRUE, r.val)
    /\ UNCHANGED <<doc, anns, pc, out, ld, anns2, out2, thr>>

Spans ==
    \E k \in 1..Len(annotations(anns)) :
        \E addr \in {annotations(anns)[k]} :
        \E r \in {Annotation_spans(anns, addr)} :
           /\ ret' = IF Raised(r)
                     THEN Outcome("spans", addr, r.raised, FALSE, None)
                     ELSE Outcome("spans", addr, NoError, FALSE, r.val)
           /\ UNCHANGED <<doc, anns, pc, out, ld, anns2, out2, thr>>

ToJson ==
    /\ ret' = Outcome("to_json", <<>>, NoError, FALSE, to_json(anns))
    /\ UNCHANGED <<doc, anns, pc, out, ld, anns2, out2, thr>>

ToJsonld ==
    \E r \in {to_jsonld(anns)} :
    /\ anns' = r.anns
    /\ ret' = IF Raised(r.result)
              THEN Outcome("to_jsonld", <<>>, r.result.raised, r.scanned, None)
              ELSE Outcome("to_jsonld", <<>>, NoError, r.scanned, r.result.val)
    /\ UNCHANGED <<doc, pc, out, ld, anns2, out2, thr>>

Next == ResolveIds \/ GetAnnById \/ Spans \/ ToJson \/ ToJsonld

Spec == Init /\ [][Next]_vars

---------------------------------------------------------------------------
(* SpecCodec: test_roundtrips on one document.  First the native round     *)
(* trip (from_json, to_json), then the JSON-LD round trip (from_json,       *)
(* to_jsonld, from_jsonld, to_json).  json.loads(pretty(...)) between       *)
(* to_jsonld and from_jsonld carries the JSON value over unchanged.        *)

Namespace(prefix, uri) == [prefix |-> prefix, uri |-> uri]

\* metadata profiles: the first has namespaces and division 0; the second
\* has division 12, an empty namespaces list and keeps the keys of empty
\* collections (as []); the third has a target outside the target grammar
\* and null for divid and namespaces
MetaProfiles ==
    {[meta |-> FullMeta
                 @@ [namespaces |-> L(<<Namespace("_base", "http://a.org/"),
                                        Namespace("go", "http://b.org/")>>)],
      keepEmpty |-> FALSE],
     [meta |-> [FullMeta EXCEPT
                    !.divid = I(12),
                    !.target = TargetOf(S(<<"PMC">>), S(<<"123">>), I(12))]
                 @@ [namespaces |-> L(<<>>)],
      keepEmpty |-> TRUE],
     [meta |-> [FullMeta EXCEPT
                    !.divid = None, !.target = S(<<"http://example.org/doc">>)]
                 @@ [namespaces |-> None],
      keepEmpty |-> FALSE]}

\* the valid documents: ids distinct, references resolvable; any subset of
\* the metadata keys present
CodecDocs ==
    {Restrict(p.meta, ks) @@ (IF p.keepEmpty THEN c ELSE DropEmpty(c)) :
        p \in MetaProfiles, ks \in SUBSET (ScalarKeys \cup {"namespaces"}),
        c \in {x \in Collections : Resolvable(x)}}

NoOutcome == Outcome("none", <<>>, NoError, FALSE, None)

InitCodec ==
    /\ doc \in CodecDocs
    /\ pc = "start"
    /\ anns = None /\ out = None /\ ld = None /\ anns2 = None /\ out2 = None
    /\ ret = NoOutcome
    /\ thr = <<>>

\* anns = Annotations.from_json(doc), first loop
Parse1 ==
    /\ pc = "start"
    /\ anns' = from_json(doc)
    /\ pc' = "parsed1"
    /\ UNCHANGED <<doc, ret, out, ld, anns2, out2, thr>>

\* str(anns), first loop
Emit1 ==
    /\ pc = "parsed1"
    /\ out' = to_json(anns)
    /\ pc' = "emitted1"
    /\ UNCHANGED <<doc, anns, ret, ld, anns2, out2, thr>>

\* anns = Annotations.from_json(doc), second loop
Parse2 ==
    /\ pc = "emitted1"
    /\ anns' = from_json(doc)
    /\ pc' = "parsed2"
    /\ UNCHANGED <<doc, ret, out, ld, anns2, out2, thr>>

\* anns.to_jsonld()
EmitLd ==
    /\ pc = "parsed2"
    /\ \E r \in {to_jsonld(anns)} :
       /\ anns' = r.anns
       /\ IF Raised(r.result)
          THEN /\ ret' = Outcome("to_jsonld", <<>>, r.result.raised, r.scanned, None)
               /\ pc' = "raised"
               /\ ld' = ld
          ELSE /\ ret' = Outcome("to_jsonld", <<>>, NoError, r.scanned, None)
               /\ pc' = "ld"
               /\ ld' = r.result.val
    /\ UNCHANGED <<doc, out, anns2, out2, thr>>

\* anns2 = Annotations.from_jsonld(...)
ParseLd ==
    /\ pc = "ld"
    /\ \E r \in {from_jsonld(ld)} :
       IF Raised(r)
       THEN /\ ret' = Outcome("from_jsonld", <<>>, r.raised, FALSE, None)
            /\ pc' = "raised"
            /\ anns2' = anns2
       ELSE /\ ret' = Outcome("from_jsonld", <<>>, NoError, FALSE, None)
            /\ pc' = "parsed3"
            /\ anns2' = r.val
    /\ UNCHANGED <<doc, anns, out, ld, out2, thr>>

\* str(anns2)
Emit2 ==
    /\ pc = "parsed3"
    /\ out2' = to_json(anns2)
    /\ pc' = "done"
    /\ UNCHANGED <<doc, anns, ret, out, ld, anns2, thr>>

NextCodec == Parse1 \/ Emit1 \/ Parse2 \/ EmitLd \/ ParseLd \/ Emit2

SpecCodec == InitCodec /\ [][NextCodec]_vars

---------------------------------------------------------------------------
(* SpecLd: Annotations.from_jsonld on a JSON-LD value that comes from      *)
(* outside, followed by to_json on the result.                             *)

KnownTypes == {"pa:Denotation", "pa:Relation", "pa:Modification"}

\* the entries to_jsonld emits for a document with two denotations, a
\* relation between them and a modification of the first
SampleGraph ==
    LET d == FullMeta @@ Annotated(
                 <<[id |-> "T1", span |-> [begin |-> 0, end |-> 1], obj |-> "X"],
                   [id |-> "T2", span |-> [begin |-> 2, end |-> 13], obj |-> "Y"]>>,
                 <<[id |-> "R1", subj |-> "T1", pred |-> "P", obj |-> "T2"]>>,
                 <<[id |-> "M1", pred |-> "Neg", obj |-> "T1"]>>)
    IN to_jsonld(from_json(d)).result.val["@graph"]

\* those entries, and the same entries under a type from another vocabulary
LdEntries ==
    {SampleGraph[i] : i \in 1..Len(SampleGraph)}
    \cup {[SampleGraph[i] EXCEPT !["@type"] = "oa:Annotation"] : i \in {1, 3}}

\* @base values: of the base grammar with and without a division, with a
\* division that is no number, and of the target grammar instead
LdBases ==
    {base_url(FullMeta), base_url([FullMeta EXCEPT !.divid = None]),
     base_url([FullMeta EXCEPT !.divid = S(<<"x">>)]), FullMeta.target}

LdDocs ==
    {("@context" :> (("@base" :> b) @@ ("text" :> t))) @@ ("@graph" :> g) :
        b \in LdBases, t \in {S(<<"AB">>), None}, g \in BSeq(LdEntries, MaxGraph)}

InitLd ==
    /\ ld \in LdDocs
    /\ pc = "ld"
    /\ doc = None /\ anns = None /\ out = None /\ anns2 = None /\ out2 = None
    /\ ret = NoOutcome
    /\ thr = <<>>

NextLd == ParseLd \/ Emit2

SpecLd == InitLd /\ [][NextLd]_vars

---------------------------------------------------------------------------
(* SpecConc: two callers of resolve_ids() on the same Annotations object,   *)
(* their steps interleaved.  SpecSerial: the same callers, a call starting  *)
(* only when no other call is under way.                                    *)

Callers == {"A", "B"}

NotCalling == {"idle", "returned", "raised"}

InitCallers ==
    /\ doc \in Docs
    /\ anns = from_json(doc)
    /\ thr = [t \in Callers |->
                 [pc |-> "idle", ann_by_id |-> <<>>, k |-> 0, raised |-> NoError]]
    /\ ret = NoOutcome
    /\ pc = "callers"
    /\ out = None /\ ld = None /\ anns2 = None /\ out2 = None

\* the call starts: if self._ids_resolved: return
CheckFlag(t) ==
    /\ thr[t].pc \in NotCalling
    /\ thr' = [thr EXCEPT ![t] =
                  [pc |-> IF anns._ids_resolved THEN "returned" ELSE "build",
                   ann_by_id |-> <<>>, k |-> 0, raised |-> NoError]]
    /\ UNCHANGED <<doc, anns, ret, pc, out, ld, anns2, out2>>

\* the same step when calls are serialized
CheckFlagSerial(t) ==
    /\ \A u \in Callers : thr[u].pc \in NotCalling
    /\ CheckFlag(t)

\* ann_by_id = self.get_ann_by_id()
BuildMap(t) ==
    /\ thr[t].pc = "build"
    /\ \E m \in {get_ann_by_id(anns)} :
       thr' = [thr EXCEPT ![t] =
                  IF Raised(m)
                  THEN [@ EXCEPT !.pc = "raised", !.raised = m.raised]
                  ELSE [@ EXCEPT !.pc = "loop", !.ann_by_id = m.val, !.k = 1]]
    /\ UNCHANGED <<doc, anns, ret, pc, out, ld, anns2, out2>>

\* the next annotation of the loop: the assertions of its resolve_ids
Asserts(t) ==
    /\ thr[t].pc = "loop"
    /\ LET chain == annotations(anns)
           k == thr[t].k
           e == IF chain[k][1] = "relations"
                THEN Relation_resolve_asserts(Deref(anns, chain[k]), thr[t].ann_by_id)
                ELSE Modification_resolve_asserts(Deref(anns, chain[k]),
                                                  thr[t].ann_by_id)
       IN thr' = [thr EXCEPT ![t] =
                     IF k > Len(chain) THEN [@ EXCEPT !.pc = "set"]
                     ELSE IF chain[k][1] = "denotations" THEN [@ EXCEPT !.k = k + 1]
                     ELSE IF e # NoError THEN [@ EXCEPT !.pc = "raised", !.raised = e]
                     ELSE IF chain[k][1] = "relations"
                          THEN [@ EXCEPT !.pc = "assign_subj"]
                          ELSE [@ EXCEPT !.pc = "assign_obj"]]
    /\ UNCHANGED <<doc, anns, ret, pc, out, ld, anns2, out2>>

\* self.subj = ann_by_id[self.subj]; an object is no key of the map
AssignSubj(t) ==
    /\ thr[t].pc = "assign_subj"
    /\ LET addr == annotations(anns)[thr[t].k]
           r == Deref(anns, addr)
       IN IF IsStr(r.subj)
          THEN /\ anns' = Mutate(anns, addr,
                              [r EXCEPT !.subj = [ref |-> thr[t].ann_by_id[r.subj.str]]])
               /\ thr' = [thr EXCEPT ![t].pc = "assign_obj"]
          ELSE /\ anns' = anns
               /\ thr' = [thr EXCEPT ![t].pc = "raised", ![t].raised = KeyError]
    /\ UNCHANGED <<doc, ret, pc, out, ld, anns2, out2>>

\* self.obj = ann_by_id[self.obj], of a Relation or a Modification
AssignObj(t) ==
    /\ thr[t].pc = "assign_obj"
    /\ LET addr == annotations(anns)[thr[t].k]
           r == Deref(anns, addr)
       IN IF IsStr(r.obj)
          THEN /\ anns' = Mutate(anns, addr,
                              [r EXCEPT !.obj = [ref |-> thr[t].ann_by_id[r.obj.str]]])
               /\ thr' = [thr EXCEPT ![t].pc = "loop", ![t].k = thr[t].k + 1]
          ELSE /\ anns' = anns
               /\ thr' = [thr EXCEPT ![t].pc = "raised", ![t].raised = KeyError]
    /\ UNCHANGED <<doc, ret, pc, out, ld, anns2, out2>>

\* self._ids_resolved = True
SetResolved(t) ==
    /\ thr[t].pc = "set"
    /\ anns' = [anns EXCEPT !._ids_resolved = TRUE]
    /\ thr' = [thr EXCEPT ![t].pc = "returned"]
    /\ UNCHANGED <<doc, ret, pc, out, ld, anns2, out2>>

Steps(t) ==
    BuildMap(t) \/ Asserts(t) \/ AssignSubj(t) \/ AssignObj(t) \/ SetResolved(t)

NextConc == \E t \in Callers : CheckFlag(t) \/ Steps(t)

NextSerial == \E t \in Callers : CheckFlagSerial(t) \/ Steps(t)

SpecConc == InitCallers /\ [][NextConc]_vars

SpecSerial == InitCallers /\ [][NextSerial]_vars

---------------------------------------------------------------------------
(* Properties of the document object, under Spec *)

\* no reference field of the document holds an object
Unresolved(a) ==
    /\ \A i \in 1..Len(a.relations) :
           IsStr(a.relations[i].subj) /\ IsStr(a.relations[i].obj)
    /\ \A i \in 1..Len(a.modifications) : IsStr(a.modifications[i].obj)

HasReferences(a) == Len(a.relations) + Len(a.modifications) > 0

\* C3: once resolve_ids() has succeeded, every further resolve_ids() call,
\* made directly or by to_jsonld(), returns without raising, does not build
\* the ID map again and leaves every reference field and the resolved flag
\* as they were.
C3_ResolveOnce ==
    [][(anns._ids_resolved /\ ret'.op \in {"resolve_ids", "to_jsonld"}
           /\ <<ret'.op, ret'.scanned, ret'.raised>>
                  # <<ret.op, ret.scanned, ret.raised>>) =>
           /\ anns' = anns
           /\ ~ret'.scanned
           /\ ret'.op = "resolve_ids" => ret'.raised = NoError]_vars

\* C3 witness: a second resolve_ids() call has returned on a resolved
\* document that has reference fields.
C3_Witness ==
    /\ anns._ids_resolved /\ HasReferences(anns)
    /\ ret.op = "resolve_ids" /\ ~ret.scanned

\* C4: get_ann_by_id() raises the duplicate-id assertion exactly when two
\* annotations of the document share an id, in one collection or across
\* collections; otherwise it returns a map whose keys are the ids of the
\* document, each mapped to the annotation that carries it.
C4_DuplicateIds ==
    ret.op = "get_ann_by_id" =>
        IF DistinctIds(doc)
        THEN /\ ret.raised = NoError
             /\ DOMAIN ret.val = IdSet(doc)
             /\ \A k \in 1..Len(annotations(anns)) :
                    ret.val[Deref(anns, annotations(anns)[k]).id]
                        = annotations(anns)[k]
        ELSE ret.raised = DuplicateId

IdsIn(d, key) ==
    LET c == Get(d, key, L(<<>>)).list IN [i \in 1..Len(c) |-> c[i].id]

DistinctIn(d, key) ==
    \A i, j \in 1..Len(IdsIn(d, key)) : IdsIn(d, key)[i] = IdsIn(d, key)[j] => i = j

\* C4 witness: get_ann_by_id() has raised on a document whose ids are distinct
\* within each collection and shared across two collections.
C4_Witness ==
    /\ ret.op = "get_ann_by_id" /\ ret.raised = DuplicateId
    /\ \A key \in {"denotations", "relations", "modifications"} : DistinctIn(doc, key)

\* C5 as stated: on a document with a dangling reference resolve_ids() raises
\* the missing-ID assertion and the resolved flag is not set.
C5_Original ==
    (Dangling(doc) /\ ret.op = "resolve_ids") =>
        (ret.raised = MissingId /\ ~anns._ids_resolved)

\* C5 amended: on a document with a dangling reference every resolve_ids()
\* call raises and the resolved flag is never set; the exception is the
\* duplicate-id assertion when two annotations share an id, and the missing-ID
\* assertion when the ids are distinct and no reference field holds an object
\* yet, and otherwise one of the missing-ID and the multiple-resolve assertions.
C5_Amended ==
    [][Dangling(doc) =>
           /\ ~anns'._ids_resolved
           /\ ret'.op = "resolve_ids" =>
                  /\ ret'.raised # NoError
                  /\ ~DistinctIds(doc) => ret'.raised = DuplicateId
                  /\ DistinctIds(doc) =>
                         /\ ret'.raised \in {MissingId, MultipleResolve}
                         /\ Unresolved(anns) => ret'.raised = MissingId]_vars

\* C5 witness: resolve_ids() has raised the missing-ID assertion on a document
\* with distinct ids and a dangling reference.
C5_Witness ==
    /\ Dangling(doc) /\ DistinctIds(doc)
    /\ ret.op = "resolve_ids" /\ ret.raised = MissingId

\* the spans of the annotation with this id, read off the JSON document
SpanOfId(d, id) ==
    LET ds == Get(d, "denotations", L(<<>>)).list
        i == CHOOSE i \in 1..Len(ds) : ds[i].id = id
    IN <<ds[i].span.begin, ds[i].span.end>>

IsDenotationId(d, id) ==
    \E i \in 1..Len(Get(d, "denotations", L(<<>>)).list) : d.denotations.list[i].id = id

\* C6: spans() on a Relation or Modification raises the resolve_ids()-first
\* assertion while the document is not resolved; once the document is
\* resolved it returns two pairs on a Relation and one on a Modification, the
\* spans of the referenced annotations.
C6_Spans ==
    (ret.op = "spans" /\ ret.arg[1] # "denotations") =>
        LET j == doc[ret.arg[1]].list[ret.arg[2]]
            refs == IF ret.arg[1] = "relations" THEN <<j.subj, j.obj>>
                    ELSE <<j.obj>>
        IN IF ~anns._ids_resolved THEN ret.raised = ResolveFirst
           ELSE /\ ret.raised = NoError
                /\ Len(ret.val) = Len(refs)
                /\ \A i \in 1..Len(refs) :
                       IsDenotationId(doc, refs[i]) =>
                           ret.val[i] = SpanOfId(doc, refs[i])

\* C8: a resolve_ids() call that raises leaves every reference field an ID
\* string and the resolved flag false.
C8_AllOrNothing ==
    (ret.op = "resolve_ids" /\ ret.raised # NoError) =>
        (Unresolved(anns) /\ ~anns._ids_resolved)

\* C10: on a document with resolvable references to_json() returns, whether
\* or not the document has been resolved, the value it returns on the freshly
\* parsed document.
C10_ToJsonIgnoresResolution ==
    (Resolvable(doc) /\ ret.op = "to_json") => ret.val = to_json(from_json(doc))

\* C10 witness: to_json() has been called on a resolved document that has
\* Relations.
C10_Witness ==
    /\ ret.op = "to_json" /\ anns._ids_resolved /\ Len(anns.relations) > 0

---------------------------------------------------------------------------
(* Properties of the codecs, under SpecCodec *)

\* the canonical form of a native JSON document: its keys whose value is
\* neither null nor an empty list
Canonical(d) ==
    [k \in {k \in DOMAIN d : d[k] # None /\ d[k] # L(<<>>)} |-> d[k]]

\* C1: to_json(from_json(D)) equals D in canonical form: every scalar field,
\* the namespaces and the three collections, element by element in order.
C1_NativeRoundTrip ==
    pc \notin {"start", "parsed1"} => out = Canonical(doc)

\* C1 witness: the native round trip has run on a document with namespaces,
\* two denotations, a metadata key left out and another set.
C1_Witness ==
    /\ pc = "emitted1"
    /\ "namespaces" \in DOMAIN out /\ "denotations" \in DOMAIN out
    /\ Len(out.denotations.list) = 2
    /\ "project" \notin DOMAIN doc /\ "divid" \in DOMAIN out

\* C2: on a valid document the JSON-LD round trip runs to its end and the
\* native JSON it re-emits equals the one the native round trip emitted.
C2_JsonLdRoundTrip ==
    pc \in {"raised", "done"} => (pc = "done" /\ out2 = out)

\* C7: from_jsonld raises whenever an entry of @graph has a type that is none
\* of pa:Denotation, pa:Relation, pa:Modification.
C7_UnknownGraphType ==
    (/\ ret.op = "from_jsonld"
     /\ \E i \in 1..Len(ld["@graph"]) : ld["@graph"][i]["@type"] \notin KnownTypes)
        => ret.raised # NoError

---------------------------------------------------------------------------
(* Properties of concurrent and of serialized resolve_ids() calls *)

\* C9, serialized calls: no resolve_ids() call fails the 'multiple resolve?'
\* assertion when a call starts only after the one before it has ended.
C9_SerializedNeverMultipleResolve ==
    \A t \in Callers : thr[t].raised # MultipleResolve

\* C9, concurrent calls (under SpecConc): on a document with resolvable
\* references, a state where one caller has failed the 'multiple resolve?'
\* assertion on a field the other caller, who passed the flag check too, has
\* set.
C9_Race ==
    /\ Resolvable(doc)
    /\ \E t \in Callers : thr[t].raised = MultipleResolve

====
